---- MODULE Spec2Model ----
(***************************************************************************)
(* A model of python-metallum (src/metallum.py): the cached, throttled     *)
(* page fetch shared by every Metallum object, the AlbumWrapper proxy      *)
(* over LazyAlbum / Album, MetallumCollection.search, split_genres,        *)
(* TrackCollection numbering and Track.title.                              *)
(*                                                                         *)
(* Time is counted in whole seconds.  Strings that the code inspects       *)
(* character by character are sequences of one-character strings.          *)
(***************************************************************************)
EXTENDS Integers, Sequences, FiniteSets, TLC

VARIABLES
    now,      \* wall clock, seconds
    cache,    \* the requests_cache store in CACHE_FILE: absolute url -> entry
    last,     \* the most recent call of _fetch_page_content in this process
    prev,     \* the call before it
    album,    \* the AlbumWrapper under observation
    acc,      \* the latest attribute access on the wrapper
    args,     \* arguments of the pure function under check
    ret,      \* its result
    threads   \* the fetch each concurrent caller is in

vars == <<now, cache, last, prev, album, acc, args, ret, threads>>

None == "None"

(***************************************************************************)
(* Bounds of the model.                                                    *)
(***************************************************************************)
MaxSeconds == 2       \* seconds of activity followed after a start or an idle period
MaxIdle == 1          \* idle periods of EXPIRE_AFTER seconds
MaxEscalations == 2   \* Album objects one wrapper is followed through

(***************************************************************************)
(* Program constants.                                                      *)
(***************************************************************************)
REQUEST_TIMEOUT == 1
EXPIRE_AFTER == 300
BASE_URL == "https://www.metal-archives.com"

\* Metallum.__init__ builds CachedSession(cache_name=CACHE_FILE) and passes no
\* expire_after: the session's own expiry is the library default, None.
session_expire_after == None

\* The instants the model follows.
InTime(t) == t \div EXPIRE_AFTER <= MaxIdle /\ t % EXPIRE_AFTER <= MaxSeconds

make_absolute(endpoint) == <<BASE_URL, endpoint>>

DISCOGRAPHY_URL == "band/discography/id/1/tab/all"
ALBUM_URL == "albums/_/_/1"
BAND_URL == "bands/_/1"
Endpoints == {DISCOGRAPHY_URL, ALBUM_URL, BAND_URL}
AbsoluteUrls == {make_absolute(e) : e \in Endpoints}

(***************************************************************************)
(* What the network can answer to one GET: a 200 response, a response      *)
(* with a non-success status, or no response at all (the transport         *)
(* raises).  lat is the time the round trip takes.                         *)
(***************************************************************************)
Latencies == {0}
AlbumBodies == {"album_page", "album_page_bad_band_href"}
BodyOf(endpoint) ==
    IF endpoint = ALBUM_URL THEN AlbumBodies
    ELSE IF endpoint = BAND_URL THEN {"band_page"}
    ELSE {"rows", "rows_href_no_digits", "rows_year_blank"}
ERROR_PAGE == "error_page"
Answers(endpoint) ==
    [status : {"ok"}, lat : Latencies, body : BodyOf(endpoint)]
        \cup [status : {"http_error"}, lat : Latencies, body : {ERROR_PAGE}]
        \cup [status : {"transport_failure"}, lat : Latencies, body : {None}]

NoEntry == [stored |-> 0, body |-> None]

\* The answers that matter to a GET of endpoint with the cache c: an entry that
\* the session never expires is served whatever the network would answer.
NoAnswer == [status |-> "transport_failure", lat |-> 0, body |-> None]
AnswersAt(c, endpoint) ==
    IF c[make_absolute(endpoint)] # NoEntry /\ session_expire_after = None
    THEN {NoAnswer}
    ELSE Answers(endpoint)

NoFetch ==
    [url |-> <<>>, kind |-> "none", status |-> None, at |-> 0, slept |-> 0,
     requests |-> 0, age |-> 0, raised |-> FALSE]

(***************************************************************************)
(* The response hook of _make_throttle_hook: the seconds it sleeps.        *)
(***************************************************************************)
hook_never_sleeps(is_cached) == 0

hook_always_sleeps(is_cached) == REQUEST_TIMEOUT

hook(is_cached) == IF ~is_cached THEN REQUEST_TIMEOUT ELSE 0

(***************************************************************************)
(* The session's cache lookup: an entry is served when it is present and,  *)
(* if the session has an expiry, not older than it.                        *)
(***************************************************************************)
CacheHit(c, key, t) ==
    /\ c[key] # NoEntry
    /\ \/ session_expire_after = None
       \/ t - c[key].stored <= session_expire_after

(***************************************************************************)
(* _fetch_page_content(url) = self._session.get(make_absolute(url)).text   *)
(* on the fetch state st = [now, cache, last, prev, text]; ans is the      *)
(* network's answer should a request be sent; text is what the call        *)
(* returns.  A hit sends nothing and runs the hook with from_cache set.    *)
(* A miss sends one request; a response runs the hook and a 200 response   *)
(* is then stored; a transport failure raises before any hook runs.        *)
(* prev keeps of the call before: its kind and, for a miss, when its       *)
(* request went out.                                                       *)
(***************************************************************************)
PrevOf(l) == [kind |-> l.kind, at |-> IF l.kind = "miss" THEN l.at ELSE 0]

fetch_page_content(st, url, ans) ==
    LET key == make_absolute(url)
        rec == [NoFetch EXCEPT !.url = key, !.at = st.now]
    IN  IF CacheHit(st.cache, key, st.now)
        THEN [st EXCEPT
                !.now = st.now + hook(TRUE),
                !.text = st.cache[key].body,
                !.prev = PrevOf(st.last),
                !.last = [rec EXCEPT !.kind = "hit", !.status = "cached",
                                     !.slept = hook(TRUE),
                                     !.age = st.now - st.cache[key].stored]]
        ELSE IF ans.status = "transport_failure"
        THEN [st EXCEPT
                !.now = st.now + ans.lat,
                !.text = None,
                !.prev = PrevOf(st.last),
                !.last = [rec EXCEPT !.kind = "miss", !.status = ans.status,
                                     !.requests = 1, !.raised = TRUE]]
        ELSE LET done == st.now + ans.lat + hook(FALSE)
             IN  [st EXCEPT
                    !.now = done,
                    !.text = ans.body,
                    !.cache = IF ans.status = "ok"
                              THEN [st.cache EXCEPT
                                      ![key] = [stored |-> done, body |-> ans.body]]
                              ELSE st.cache,
                    !.prev = PrevOf(st.last),
                    !.last = [rec EXCEPT !.kind = "miss", !.status = ans.status,
                                         !.requests = 1, !.slept = hook(FALSE)]]

\* Metallum.__init__(url): the object exists, with _content the fetched text,
\* exactly when the fetch did not raise.
Metallum_init(st, url, ans) ==
    LET st2 == fetch_page_content(st, url, ans)
    IN  [st |-> st2,
         content |-> IF st2.last.raised THEN None ELSE st2.text]

FetchState ==
    [now |-> now, cache |-> cache, last |-> last, prev |-> prev, text |-> None]

SetFetchState(st) ==
    /\ InTime(st.now)
    /\ now' = st.now
    /\ cache' = st.cache
    /\ last' = st.last
    /\ prev' = st.prev

(***************************************************************************)
(* LazyAlbum and Album.  A listing row is known by the shape of its link   *)
(* and of its year cell, an album page by its body.  Each accessor either  *)
(* returns ("ok") or raises the named exception.                           *)
(***************************************************************************)
ListingBodies ==
    {"rows", "rows_href_no_digits", "rows_year_blank"}
RowHref(body) ==
    IF body = "rows_href_no_digits" THEN "no_digits" ELSE "digits"
RowYear(body) == IF body = "rows_year_blank" THEN "blank" ELSE "int"

LazyFields == {"id", "url", "title", "type", "year"}
AlbumFields == LazyFields \cup {"label", "bands"}
\* The names an access is made with: url is built from id and fails as id
\* does, type reads a cell as title does.
Names == {"id", "title", "year", "label", "bands", "no_such_attribute"}

\* re.search(r'\d+$', url).group(0) on the href of a link
IdOfHref(href) ==
    IF href = "digits" THEN "ok"
    ELSE IF href = "no_digits" THEN "AttributeError"
    ELSE "TypeError"

LazyAlbum_get(a, name) ==
    IF name \in {"id", "url"} THEN IdOfHref(a.href)
    ELSE IF name \in {"title", "type"} THEN "ok"
    ELSE IF name = "year" THEN (IF a.year = "int" THEN "ok" ELSE "ValueError")
    ELSE "AttributeError"

\* The accessors of Album on the page it holds.  bands builds one Band per
\* link of the page, each a Metallum object that fetches its own page.
Album_get(st, body, name, ans) ==
    IF name \in {"id", "url"}
    THEN [st |-> st, out |-> IF body = ERROR_PAGE THEN "TypeError" ELSE "ok"]
    ELSE IF name \in {"title", "type", "label"}
    THEN [st |-> st, out |-> "ok"]
    ELSE IF name = "year"
    THEN [st |-> st, out |-> IF body = ERROR_PAGE THEN "ValueError" ELSE "ok"]
    ELSE IF name = "bands"
    THEN IF body = "album_page_bad_band_href"
         THEN [st |-> st, out |-> IdOfHref("no_digits")]
         ELSE IF body = ERROR_PAGE
         THEN [st |-> st, out |-> "ok"]
         ELSE LET b == Metallum_init(st, BAND_URL, ans)
              IN  [st |-> b.st,
                   out |-> IF b.content = None THEN "ConnectionError" ELSE "ok"]
    ELSE [st |-> st, out |-> "AttributeError"]

\* getattr(self._album, name)
Get(st, a, name, ans) ==
    IF a._album = "LazyAlbum"
    THEN [st |-> st, out |-> LazyAlbum_get(a, name)]
    ELSE Album_get(st, a.page, name, ans)

\* hasattr(obj, name): False exactly when the accessor raises AttributeError;
\* any other exception leaves hasattr.
hasattr(st, a, name, ans) == Get(st, a, name, ans)

(***************************************************************************)
(* AlbumWrapper.__getattr__(name) on the wrapper a.  The result carries    *)
(* the fetch state, the wrapper, what the access returned or raised, and   *)
(* the number of fetches of the album page it issued.                      *)
(***************************************************************************)
getattr_wrapper(st, a, name, ans1, ans2, ans3) ==
    LET h == hasattr(st, a, name, ans1)
    IN  IF h.out \notin {"ok", "AttributeError"}
        THEN [st |-> h.st, album |-> a, out |-> h.out, album_fetches |-> 0]
        ELSE IF h.out = "AttributeError" /\ name \in AlbumFields
        THEN LET u == Get(h.st, a, "url", ans1)
             IN  IF u.out # "ok"
                 THEN [st |-> h.st, album |-> a, out |-> u.out, album_fetches |-> 0]
                 ELSE LET m == Metallum_init(h.st, ALBUM_URL, ans2)
                      IN  IF m.content = None
                          THEN [st |-> m.st, album |-> a, out |-> "ConnectionError",
                                album_fetches |-> 1]
                          ELSE LET a2 == [a EXCEPT !._album = "Album",
                                                   !.page = m.content,
                                                   !.escalations = @ + 1]
                                   g == Get(m.st, a2, name, ans3)
                               IN  [st |-> g.st, album |-> a2, out |-> g.out,
                                    album_fetches |-> 1]
        ELSE LET g == Get(h.st, a, name, ans3)
             IN  [st |-> g.st, album |-> a, out |-> g.out, album_fetches |-> 0]

NoAlbum == [_album |-> "none", href |-> None, year |-> None, page |-> None,
            escalations |-> 0, built_by |-> None, init_fetches |-> 0]
NoAccess == [name |-> None, before |-> None, out |-> None, album_fetches |-> 0]

(***************************************************************************)
(* The pure functions.  args holds the arguments of one call and ret its   *)
(* result once the call has returned.                                      *)
(***************************************************************************)
NoCall == [op |-> "none"]
NoResult == [done |-> FALSE, value |-> <<>>]

MaxItems == 3     \* items of a collection
MaxLen == 5       \* characters of a genre string
MaxRows == 3      \* track rows of a release
MaxBands == 2     \* bands of a release

\* str.lower() on the letters the model uses
lower_char(c) ==
    IF c = "M" THEN "m" ELSE IF c = "O" THEN "o" ELSE IF c = "K" THEN "k" ELSE c

lower_identity(str) == str

lower(str) == [i \in 1..Len(str) |-> lower_char(str[i])]

\* list.remove(x): drops the first element equal to x and raises ValueError
\* when there is none.  The items of a collection (AlbumWrapper, Track)
\* define no __eq__: equal means the same object.
RECURSIVE list_remove(_, _)
list_remove(l, x) ==
    IF l = <<>> THEN [list |-> <<>>, raised |-> TRUE]
    ELSE IF Head(l) = x THEN [list |-> Tail(l), raised |-> FALSE]
    ELSE LET r == list_remove(Tail(l), x)
         IN  [list |-> <<Head(l)>> \o r.list, raised |-> r.raised]

\* for item in collection[:]: the pass of one constraint over a copy snap
\* of the collection, removing from the collection itself.
RECURSIVE search_pass(_, _, _, _, _, _)
search_pass(collection, snap, i, heap, arg, value) ==
    IF i > Len(snap) THEN collection
    ELSE LET item == snap[i]
             r == list_remove(collection, item)
         IN  search_pass(IF lower(value) # lower(heap[item][arg])
                         THEN (IF r.raised THEN collection ELSE r.list)
                         ELSE collection,
                         snap, i + 1, heap, arg, value)

\* for arg in kwargs: kwargs is the keyword dictionary in call order, a
\* sequence of <<name, value>>.
RECURSIVE search_args(_, _, _, _)
search_args(collection, heap, kwargs, k) ==
    IF k > Len(kwargs) THEN collection
    ELSE search_args(search_pass(collection, collection, 1, heap,
                                 kwargs[k][1], kwargs[k][2]),
                     heap, kwargs, k + 1)

\* MetallumCollection.search: self is the list of the items (object
\* references), heap gives each object's string attributes.
search(self, heap, kwargs) == search_args(self, heap, kwargs, 1)

Titles == {<<"m", "o">>, <<"M", "o">>, <<"k">>}
Types == {<<"e">>, <<"k">>}
TitleQueries == {<<"M", "O">>, <<"k">>}
TypeQueries == {<<"e">>, <<"K">>}
Kwargs ==
    {<<>>}
        \cup {<< <<"title", v>> >> : v \in TitleQueries}
        \cup {<< <<"type", v>> >> : v \in TypeQueries}
        \cup {<< <<"title", v>>, <<"type", w>> >> : v \in TitleQueries, w \in TypeQueries}
        \cup {<< <<"type", w>>, <<"title", v>> >> : v \in TitleQueries, w \in TypeQueries}
SearchCalls ==
    UNION {[op : {"search"}, self : {[i \in 1..n |-> i]},
            heap : [1..n -> [title : Titles, type : Types]],
            kwargs : Kwargs] : n \in 0..MaxItems}

(***************************************************************************)
(* split_genres(s) = re.split(r'(?:,|;)\s*(?![^()]*\))', s) on a string of *)
(* the characters below.                                                   *)
(***************************************************************************)
GenreChars == {"a", ",", ";", " ", "(", ")"}

\* (?![^()]*\)) at position p fails exactly when the first parenthesis at or
\* after p closes.
RECURSIVE lookahead_closes(_, _)
lookahead_closes(s, p) ==
    IF p > Len(s) THEN FALSE
    ELSE IF s[p] = ")" THEN TRUE
    ELSE IF s[p] = "(" THEN FALSE
    ELSE lookahead_closes(s, p + 1)

\* \s* is greedy: the end of the run of whitespace that starts at p
RECURSIVE whitespace_end(_, _)
whitespace_end(s, p) ==
    IF p <= Len(s) /\ s[p] = " " THEN whitespace_end(s, p + 1) ELSE p

\* \s* gives characters back until the lookahead passes: the position after
\* the match, 0 when no length of whitespace lets it pass
RECURSIVE backtrack(_, _, _)
backtrack(s, e, least) ==
    IF e < least THEN 0
    ELSE IF ~lookahead_closes(s, e) THEN e
    ELSE backtrack(s, e - 1, least)

\* the pattern tried at position i: the position after the match, 0 for none
match_end(s, i) ==
    IF s[i] \in {",", ";"}
    THEN backtrack(s, whitespace_end(s, i + 1), i + 1)
    ELSE 0

RECURSIVE re_split(_, _, _, _)
re_split(s, i, start, out) ==
    IF i > Len(s) THEN Append(out, SubSeq(s, start, Len(s)))
    ELSE LET e == match_end(s, i)
         IN  IF e = 0 THEN re_split(s, i + 1, start, out)
             ELSE re_split(s, e, e, Append(out, SubSeq(s, start, i - 1)))

split_genres(s) == re_split(s, 1, 1, <<>>)

GenreCalls ==
    UNION {[op : {"split_genres"}, s : [1..n -> GenreChars]] : n \in 0..MaxLen}

(***************************************************************************)
(* TrackCollection.__init__: the numbering of the track rows.  A row is    *)
(* the text of its first cell, digits and a final dot.                     *)
(***************************************************************************)
DigitValue(c) == IF c = "0" THEN 0 ELSE IF c = "1" THEN 1 ELSE IF c = "2" THEN 2 ELSE 3

RECURSIVE int(_)
int(digits) ==
    IF digits = <<>> THEN 0
    ELSE 10 * int(SubSeq(digits, 1, Len(digits) - 1)) + DigitValue(digits[Len(digits)])

\* Track.number: int(text[:-1])
Track_number(text) == int(SubSeq(text, 1, Len(text) - 1))

new_disc_on_every_one(index, number) == number = 1

\* index != 0 and track.number == 1
new_disc(index, number) == index # 0 /\ number = 1

RECURSIVE number_rows(_, _, _, _, _)
number_rows(rows, index, disc, overall_number, out) ==
    IF index >= Len(rows) THEN out
    ELSE LET number == Track_number(rows[index + 1])
             disc2 == IF new_disc(index, number) THEN disc + 1 ELSE disc
         IN  number_rows(rows, index + 1, disc2, overall_number + 1,
                         Append(out, [_disc_number |-> disc2,
                                      _overall_number |-> overall_number]))

TrackCollection_init(rows) == number_rows(rows, 0, 1, 1, <<>>)

Digits == {"0", "1", "2"}
NumberCells ==
    {<<d, ".">> : d \in Digits} \cup {<<d, e, ".">> : d \in Digits, e \in {"1", "2"}}
TrackCalls ==
    UNION {[op : {"TrackCollection"}, rows : [1..n -> NumberCells]] : n \in 0..MaxRows}

(***************************************************************************)
(* Track.band and Track.title.  bands are the names of album.bands in      *)
(* release order.                                                          *)
(***************************************************************************)
SPLIT == "Split"
FULL_LENGTH == "Full-length"
SEPARATOR == <<" ", "-", " ">>

startswith(str, prefix) ==
    Len(prefix) <= Len(str) /\ SubSeq(str, 1, Len(prefix)) = prefix

\* for band in self.album.bands: if full_title.startswith(band.name): break
\* leaves band at the first match, or at the last band when none matches.
RECURSIVE first_match(_, _, _)
first_match(bands, full_title, i) ==
    IF i >= Len(bands) \/ startswith(full_title, bands[i]) THEN bands[i]
    ELSE first_match(bands, full_title, i + 1)

Track_band(type, bands, full_title) ==
    IF type = SPLIT THEN first_match(bands, full_title, 1) ELSE bands[1]

\* title[len(self.band.name) + 3:]
Track_title(type, bands, full_title) ==
    IF type = SPLIT
    THEN SubSeq(full_title, Len(Track_band(type, bands, full_title)) + 3 + 1,
                Len(full_title))
    ELSE full_title

BandNames == {<<"D">>, <<"D", "r">>, <<"L">>}
Rests == {<<"x">>, <<"x", "y">>}
BandLists ==
    {b \in UNION {[1..n -> BandNames] : n \in 1..MaxBands} :
        \A i, j \in DOMAIN b : i # j => b[i] # b[j]}
\* a split release stores each title as "<Band Name> - <title>"
TitleCalls ==
    UNION {{[op |-> "title", type |-> SPLIT, bands |-> b,
             full_title |-> b[i] \o SEPARATOR \o r] : i \in DOMAIN b, r \in Rests} :
           b \in BandLists}
        \cup {[op |-> "title", type |-> FULL_LENGTH, bands |-> b, full_title |-> r] :
                b \in BandLists, r \in Rests}

(***************************************************************************)
(* Concurrent callers.  Nothing in the module is shared between two calls  *)
(* but the cache file: every Metallum object builds its own session, there *)
(* is no lock and no clock of the last request.  A fetch of one caller is  *)
(* the steps of CachedSession.send: look the url up, send the request,     *)
(* receive the response and run the hook (which sleeps), store.            *)
(***************************************************************************)
MaxThreads == 2   \* concurrent callers
Threads == 1..MaxThreads
Idle == [pc |-> "idle", endpoint |-> None, kind |-> "none", sent_at |-> 0,
         wake |-> 0, status |-> None, body |-> None]

Init ==
    /\ now = 0
    /\ cache = [k \in AbsoluteUrls |-> NoEntry]
    /\ last = NoFetch
    /\ prev = [kind |-> "none", at |-> 0]
    /\ album = NoAlbum
    /\ acc = NoAccess
    /\ args = NoCall
    /\ ret = NoResult
    /\ threads = [t \in Threads |-> Idle]

\* Time passes between two calls of the program.
TimeSteps == {1, EXPIRE_AFTER}
Tick ==
    \E d \in TimeSteps :
        /\ InTime(now + d)
        /\ now' = now + d
        /\ UNCHANGED <<cache, last, prev, album, acc, args, ret, threads>>

\* band_for_id(id): Band(url), a Metallum object of its own.
band_for_id ==
    \E ans \in AnswersAt(cache, BAND_URL) :
        LET r == Metallum_init(FetchState, BAND_URL, ans)
        IN  /\ SetFetchState(r.st)
            /\ UNCHANGED <<album, acc, args, ret, threads>>

\* Band.albums: AlbumCollection(url) fetches the discography page and wraps
\* each row in an AlbumWrapper(elem=row), which fetches nothing.
albums ==
    \E ans \in AnswersAt(cache, DISCOGRAPHY_URL) :
        LET r == Metallum_init(FetchState, DISCOGRAPHY_URL, ans)
        IN  /\ album = NoAlbum
            /\ SetFetchState(r.st)
            /\ album' = IF r.content \in ListingBodies
                        THEN [NoAlbum EXCEPT !._album = "LazyAlbum",
                                             !.href = RowHref(r.content),
                                             !.year = RowYear(r.content),
                                             !.built_by = "elem"]
                        ELSE NoAlbum
            /\ UNCHANGED <<acc, args, ret, threads>>

\* album_for_id(id): AlbumWrapper(url=...) fetches the page as a Metallum
\* object and then builds Album(url), which fetches it again.
album_for_id ==
    \E ans1, ans2 \in AnswersAt(cache, ALBUM_URL) :
        LET w == Metallum_init(FetchState, ALBUM_URL, ans1)
            f == Metallum_init(w.st, ALBUM_URL, ans2)
        IN  /\ album = NoAlbum
            /\ IF w.content = None
               THEN /\ SetFetchState(w.st)
                                    /\ album' = NoAlbum
               ELSE /\ SetFetchState(f.st)
                    /\ album' = IF f.content = None THEN NoAlbum
                                ELSE [NoAlbum EXCEPT !._album = "Album",
                                                     !.page = f.content,
                                                     !.built_by = "url",
                                                     !.init_fetches = 2]
            /\ UNCHANGED <<acc, args, ret, threads>>

\* An attribute access on the wrapper that AlbumWrapper.__getattr__ serves.
Access ==
    \E name \in Names, ans2 \in AnswersAt(cache, ALBUM_URL),
       ans1, ans3 \in AnswersAt(cache, BAND_URL) :
        LET r == getattr_wrapper(FetchState, album, name, ans1, ans2, ans3)
        IN  /\ album # NoAlbum
            \* only bands fetches band pages, and hasattr only on an Album
            \* whose page links a band
            /\ name # "bands" => ans3 = NoAnswer
            /\ (name # "bands" \/ album.page # "album_page") => ans1 = NoAnswer
            \* the album page is fetched only when hasattr finds no attribute
            /\ hasattr(FetchState, album, name, ans1).out # "AttributeError" =>
                  ans2 = NoAnswer
            /\ r.album.escalations <= MaxEscalations
            /\ SetFetchState(r.st)
            /\ album' = r.album
            /\ acc' = [name |-> name, before |-> album._album, out |-> r.out,
                       album_fetches |-> r.album_fetches]
            /\ UNCHANGED <<args, ret, threads>>

\* A new process imports the module: install_cache(expire_after=300) and
\* remove_expired_responses() drop the entries stored more than EXPIRE_AFTER
\* ago; the objects of the earlier process are gone.
Import ==
    /\ cache' = [k \in AbsoluteUrls |->
                    IF cache[k] # NoEntry /\ now - cache[k].stored > EXPIRE_AFTER
                    THEN NoEntry ELSE cache[k]]
    /\ last' = NoFetch
    /\ prev' = [kind |-> "none", at |-> 0]
    /\ album' = NoAlbum
    /\ acc' = NoAccess
    /\ UNCHANGED <<now, args, ret, threads>>

Next ==
    \/ Tick
    \/ band_for_id
    \/ albums
    \/ album_for_id
    \/ Access
    \/ Import

Spec == Init /\ [][Next]_vars

(***************************************************************************)
(* AlbumWrapper.tracks and AlbumWrapper.disc_count, properties of the      *)
(* wrapper itself: TrackCollection(self._album.url, self) fetches the page *)
(* at the url of whatever representation the wrapper holds.  A property    *)
(* that raises AttributeError makes Python fall back on __getattr__.       *)
(***************************************************************************)
DerivedFields == {"tracks", "disc_count"}

tracks_through_album(st, a, name, ans) ==
    LET r == getattr_wrapper(st, a, "label", NoAnswer, ans, NoAnswer)
    IN  [r EXCEPT !.album_fetches = 1]

tracks_wrapper(st, a, name, ans) ==
    LET u == Get(st, a, "url", NoAnswer)
    IN  IF u.out = "AttributeError"
        THEN getattr_wrapper(st, a, name, NoAnswer, NoAnswer, NoAnswer)
        ELSE IF u.out # "ok"
        THEN [st |-> st, album |-> a, out |-> u.out, album_fetches |-> 0]
        ELSE LET m == Metallum_init(st, ALBUM_URL, ans)
             IN  [st |-> m.st, album |-> a,
                  out |-> IF m.content = None THEN "ConnectionError" ELSE "ok",
                  album_fetches |-> 1]

\* wrapper.tracks or wrapper.disc_count
AccessDerived ==
    \E name \in DerivedFields, ans \in AnswersAt(cache, ALBUM_URL) :
        LET r == tracks_wrapper(FetchState, album, name, ans)
        IN  /\ album # NoAlbum
            /\ r.album.escalations <= MaxEscalations
            /\ SetFetchState(r.st)
            /\ album' = r.album
            /\ acc' = [name |-> name, before |-> album._album, out |-> r.out,
                       album_fetches |-> r.album_fetches]
            /\ UNCHANGED <<args, ret, threads>>

NextDerived ==
    \/ albums
    \/ album_for_id
    \/ Access
    \/ AccessDerived

Derived == Init /\ [][NextDerived]_vars

\* self._session.get(...): the session looks the url up in the cache
lookup(t) ==
    \E url \in {ALBUM_URL, BAND_URL} :
        LET key == make_absolute(url)
        IN  /\ threads[t].pc \in {"idle", "done"}
            /\ threads' = [threads EXCEPT ![t] =
                  IF CacheHit(cache, key, now)
                  THEN [Idle EXCEPT !.pc = "done", !.endpoint = url, !.kind = "hit",
                                    !.status = "cached", !.body = cache[key].body,
                                    !.wake = now + hook(TRUE)]
                  ELSE [Idle EXCEPT !.pc = "missed", !.endpoint = url,
                                    !.kind = "miss"]]
            /\ UNCHANGED <<now, cache, last, prev, album, acc, args, ret>>

\* on a miss the request goes out
send(t) ==
    /\ threads[t].pc = "missed"
    /\ threads' = [threads EXCEPT ![t].pc = "sent", ![t].sent_at = now]
    /\ UNCHANGED <<now, cache, last, prev, album, acc, args, ret>>

\* the answer arrives: a transport failure raises, a response runs the hook
receive(t) ==
    /\ threads[t].pc = "sent"
    /\ \E ans \in Answers(threads[t].endpoint) :
        /\ threads' = [threads EXCEPT ![t] =
              IF ans.status = "transport_failure"
              THEN [@ EXCEPT !.pc = "done", !.status = ans.status]
              ELSE [@ EXCEPT !.pc = "sleeping", !.status = ans.status,
                             !.body = ans.body, !.wake = now + hook(FALSE)]]
        /\ UNCHANGED <<now, cache, last, prev, album, acc, args, ret>>

\* time.sleep is over: the hook returns and a 200 response is stored
wake(t) ==
    /\ threads[t].pc = "sleeping"
    /\ now >= threads[t].wake
    /\ threads' = [threads EXCEPT ![t].pc = "done"]
    /\ cache' = IF threads[t].status = "ok"
                THEN [cache EXCEPT ![make_absolute(threads[t].endpoint)] =
                        [stored |-> now, body |-> threads[t].body]]
                ELSE cache
    /\ UNCHANGED <<now, last, prev, album, acc, args, ret>>

\* a second passes
elapse ==
    /\ now + 1 <= MaxSeconds
    /\ now' = now + 1
    /\ UNCHANGED <<cache, last, prev, album, acc, args, ret, threads>>

NextConcurrent ==
    \/ \E t \in Threads : lookup(t)
    \/ \E t \in Threads : send(t)
    \/ \E t \in Threads : receive(t)
    \/ \E t \in Threads : wake(t)
    \/ elapse

Concurrent == Init /\ [][NextConcurrent]_vars

(***************************************************************************)
(* MetallumCollection.search on items whose attributes may fail to read:   *)
(* heap[item][arg] is the string getattr(item, arg) returns, or Unreadable *)
(* when the accessor raises (AlbumWrapper.__getattr__ ends in              *)
(* getattr(self._album, name), which raises for a name neither             *)
(* representation has).                                                    *)
(***************************************************************************)
Unreadable == <<"AttributeError">>

getattr_or_empty(heap, item, arg) ==
    IF heap[item][arg] = Unreadable
    THEN [raised |-> None, value |-> <<>>]
    ELSE [raised |-> None, value |-> heap[item][arg]]

\* getattr(item, arg)
getattr_item(heap, item, arg) ==
    IF heap[item][arg] = Unreadable
    THEN [raised |-> Unreadable[1], value |-> <<>>]
    ELSE [raised |-> None, value |-> heap[item][arg]]

\* the pass of one constraint; an accessor that raises ends the call
RECURSIVE search_pass_getattr(_, _, _, _, _, _)
search_pass_getattr(collection, snap, i, heap, arg, value) ==
    IF i > Len(snap) THEN [raised |-> None, collection |-> collection]
    ELSE LET item == snap[i]
             g == getattr_item(heap, item, arg)
             r == list_remove(collection, item)
         IN  IF g.raised # None THEN [raised |-> g.raised, collection |-> <<>>]
             ELSE search_pass_getattr(IF lower(value) # lower(g.value)
                                      THEN (IF r.raised THEN collection ELSE r.list)
                                      ELSE collection,
                                      snap, i + 1, heap, arg, value)

RECURSIVE search_args_getattr(_, _, _, _)
search_args_getattr(collection, heap, kwargs, k) ==
    IF k > Len(kwargs) THEN [raised |-> None, collection |-> collection]
    ELSE LET p == search_pass_getattr(collection, collection, 1, heap,
                                      kwargs[k][1], kwargs[k][2])
         IN  IF p.raised # None THEN p
             ELSE search_args_getattr(p.collection, heap, kwargs, k + 1)

search_getattr(self, heap, kwargs) == search_args_getattr(self, heap, kwargs, 1)

SearchGetattrCalls ==
    UNION {[op : {"search_getattr"}, self : {[i \in 1..n |-> i]},
            heap : [1..n -> [title : {<<"m">>, <<"k">>, Unreadable},
                             type : {<<"e">>, Unreadable}]],
            kwargs : Kwargs] : n \in 0..MaxItems}

(***************************************************************************)
(* parse_duration(s) on a string of digits and colons.                     *)
(***************************************************************************)
MaxDigits == 2    \* digits of one group of a duration

\* s.split(':')
RECURSIVE split_colon(_, _, _)
split_colon(s, i, part) ==
    IF i > Len(s) THEN <<part>>
    ELSE IF s[i] = ":" THEN <<part>> \o split_colon(s, i + 1, <<>>)
    ELSE split_colon(s, i + 1, Append(part, s[i]))

parse_duration_without_hours(s) ==
    LET parts == split_colon(s, 1, <<>>)
        seconds == int(parts[Len(parts)])
    IN  IF Len(parts) > 1 THEN seconds + int(parts[Len(parts) - 1]) * 60
        ELSE seconds

parse_duration(s) ==
    LET parts == split_colon(s, 1, <<>>)
        seconds == int(parts[Len(parts)])
        seconds2 == IF Len(parts) > 1
                    THEN seconds + int(parts[Len(parts) - 1]) * 60
                    ELSE seconds
    IN  IF Len(parts) = 3 THEN seconds2 + int(parts[1]) * 3600 ELSE seconds2

DigitGroups == UNION {[1..n -> Digits] : n \in 1..MaxDigits}
RECURSIVE join_colon(_)
join_colon(groups) ==
    IF Len(groups) = 1 THEN groups[1]
    ELSE groups[1] \o <<":">> \o join_colon(Tail(groups))
\* the durations the site prints: ss, mm:ss and h:mm:ss
DurationCalls ==
    {[op |-> "parse_duration", s |-> join_colon(g)] :
        g \in [1..1 -> DigitGroups] \cup [1..2 -> DigitGroups]
                 \cup {<<<<h>>, m, sec>> : h \in Digits, m \in DigitGroups, sec \in DigitGroups}}

(***************************************************************************)
(* Search.__init__ on the content the fetch returned: the JSON text of the *)
(* advanced search, or a page that is no JSON.  A row is the list of its    *)
(* details; a detail is plain text, a link, or the link to a song's lyrics. *)
(***************************************************************************)
MaxResults == 2   \* rows of one response of the advanced search

Details ==
    {[kind |-> "text", text |-> "t", id |-> "0"],
     [kind |-> "link", text |-> "l", id |-> "0"],
     [kind |-> "lyrics_link", text |-> "s", id |-> "7"]}

\* SearchResult.__init__(details): the text of a link, the id of a lyrics
\* link, any other detail as it is.
SearchResult_init(details) ==
    [i \in 1..Len(details) |->
        IF details[i].kind = "lyrics_link" THEN details[i].id
        ELSE details[i].text]

\* what len(results) would give
total_is_rows(data) == Len(data.aaData)

\* int(data['iTotalRecords']) of the number the JSON text writes
total_of(data) == int(data.iTotalRecords)

Search_init(content) ==
    IF content.kind # "json"
    THEN [raised |-> "JSONDecodeError", items |-> <<>>, result_count |-> None]
    ELSE [raised |-> None,
          items |-> [i \in 1..Len(content.aaData) |->
                        SearchResult_init(content.aaData[i])],
          result_count |-> total_of(content)]

ResultRows == UNION {[1..n -> Details] : n \in 1..2}
SearchContents ==
    {c \in UNION {[kind : {"json"}, aaData : [1..k -> ResultRows],
                   iTotalRecords : DigitGroups] : k \in 0..MaxResults} :
        int(c.iTotalRecords) >= Len(c.aaData)}
        \cup {[kind |-> "html", aaData |-> <<>>, iTotalRecords |-> <<>>]}
SearchConstructions == {[op |-> "Search", content |-> c] : c \in SearchContents}

(***************************************************************************)
(* Dates.  A datetime is [year, month, day, hour]; minutes and seconds are *)
(* carried unchanged by everything below and left out.  Texts are          *)
(* sequences of characters, their numbers written with the digits 0..2.    *)
(***************************************************************************)
UTC_OFFSET == 4

IsDigits(str) == str # <<>> /\ \A i \in 1..Len(str) : str[i] \in Digits

datetime(year, month, day, hour) ==
    [year |-> year, month |-> month, day |-> day, hour |-> hour]

DaysIn(year, month) ==
    IF month \in {4, 6, 9, 11} THEN 30
    ELSE IF month # 2 THEN 31
    ELSE IF year % 4 = 0 /\ (year % 100 # 0 \/ year % 400 = 0) THEN 29
    ELSE 28

\* t + timedelta(hours=n) for 0 <= n < 24
plus_hours(t, n) ==
    LET h == t.hour + n
        next_day == h >= 24
        next_month == next_day /\ t.day = DaysIn(t.year, t.month)
        next_year == next_month /\ t.month = 12
    IN  datetime(IF next_year THEN t.year + 1 ELSE t.year,
                 IF next_year THEN 1 ELSE IF next_month THEN t.month + 1 ELSE t.month,
                 IF next_month THEN 1 ELSE IF next_day THEN t.day + 1 ELSE t.day,
                 h % 24)

no_offset(t) == t

\* offset_time(t): server time to UTC
offset_time(t) == plus_hours(t, UTC_OFFSET)

\* the month names of %B that the model's pages use
MonthNames == {[name |-> <<"M", "a", "y">>, month |-> 5],
               [name |-> <<"J", "u", "l", "y">>, month |-> 7]}

\* What an accessor does: it raises, returns None, or returns a value.
ValueError == [raised |-> "ValueError", none |-> FALSE, value |-> <<>>]
ReturnedNone == [raised |-> None, none |-> TRUE, value |-> <<>>]
Returned(value) == [raised |-> None, none |-> FALSE, value |-> value]

\* datetime.datetime.strptime(s, '%B %Y')
strptime_B_Y(str) ==
    IF \E m \in MonthNames :
          /\ Len(str) = Len(m.name) + 5
          /\ SubSeq(str, 1, Len(m.name) + 1) = m.name \o <<" ">>
          /\ IsDigits(SubSeq(str, Len(m.name) + 2, Len(str)))
    THEN LET m == CHOOSE m \in MonthNames : startswith(str, m.name \o <<" ">>)
         IN  Returned(datetime(int(SubSeq(str, Len(m.name) + 2, Len(str))),
                               m.month, 1, 0))
    ELSE ValueError

\* dateutil's parser.parse(s) on the shapes the site prints: "May 2nd, 2001"
\* and "2001"; the fields a text does not give come from today, at midnight.
\* On a text with no date in it, dateutil raises ValueError (releases before
\* 2.5 returned today at midnight): lib says which release is installed.
date_parser_parse(str, today, lib) ==
    IF \E m \in MonthNames :
          /\ Len(str) = Len(m.name) + 10
          /\ SubSeq(str, 1, Len(m.name) + 1) = m.name \o <<" ">>
          /\ IsDigits(SubSeq(str, Len(m.name) + 2, Len(m.name) + 2))
          /\ SubSeq(str, Len(m.name) + 3, Len(m.name) + 6) \in
                {<<"s", "t", ",", " ">>, <<"n", "d", ",", " ">>}
          /\ IsDigits(SubSeq(str, Len(m.name) + 7, Len(str)))
    THEN LET m == CHOOSE m \in MonthNames : startswith(str, m.name \o <<" ">>)
         IN  Returned(datetime(int(SubSeq(str, Len(m.name) + 7, Len(str))), m.month,
                               int(SubSeq(str, Len(m.name) + 2, Len(m.name) + 2)), 0))
    ELSE IF Len(str) = 4 /\ IsDigits(str)
    THEN Returned(datetime(int(str), today.month, today.day, 0))
    ELSE IF lib = "old" /\ str = <<>>
    THEN Returned(datetime(today.year, today.month, today.day, 0))
    ELSE ValueError

(***************************************************************************)
(* The audit trail: Band.added, Band.modified, Album.added and             *)
(* Album.modified read a cell of the second row of '#auditTrail', cut its  *)
(* caption off and parse the rest as '%Y-%m-%d %H:%M:%S'.                  *)
(***************************************************************************)
\* s[n:]
slice_from(str, n) == SubSeq(str, n + 1, Len(str))

IsDecimal(str) ==
    str # <<>> /\ \A i \in 1..Len(str) : str[i] \in Digits \cup {"3"}

\* datetime.datetime.strptime(s, '%Y-%m-%d %H:%M:%S') on zero-padded texts
strptime_Y_m_d_H_M_S(str) ==
    IF /\ Len(str) = 19
       /\ str[5] = "-" /\ str[8] = "-" /\ str[11] = " "
       /\ str[14] = ":" /\ str[17] = ":"
       /\ \A g \in {<<1, 4>>, <<6, 7>>, <<9, 10>>, <<12, 13>>, <<15, 16>>, <<18, 19>>} :
             IsDecimal(SubSeq(str, g[1], g[2]))
       /\ int(SubSeq(str, 6, 7)) \in 1..12
       /\ int(SubSeq(str, 9, 10)) \in
             1..DaysIn(int(SubSeq(str, 1, 4)), int(SubSeq(str, 6, 7)))
       /\ int(SubSeq(str, 12, 13)) < 24
       /\ int(SubSeq(str, 15, 16)) < 60
       /\ int(SubSeq(str, 18, 19)) < 62
    THEN Returned(datetime(int(SubSeq(str, 1, 4)), int(SubSeq(str, 6, 7)),
                           int(SubSeq(str, 9, 10)), int(SubSeq(str, 12, 13))))
    ELSE ValueError

\* try: return offset_time(strptime(text()[caption:], ...))
\* except ValueError: return None
audit_time(cell, caption) ==
    LET t == strptime_Y_m_d_H_M_S(slice_from(cell, caption))
    IN  IF t.raised = "ValueError" THEN ReturnedNone ELSE Returned(offset_time(t.value))

AuditAccessors == {"Band.added", "Band.modified", "Album.added", "Album.modified"}

\* td.eq(0).text()[10:] for added, td.eq(1).text()[18:] for modified
audit_accessor(name, cells) ==
    IF name \in {"Band.added", "Album.added"}
    THEN audit_time(cells[1], 10)
    ELSE audit_time(cells[2], 18)

\* The times the site prints, with the server time each one says.
Stamps ==
    {[text |-> <<"2", "0", "0", "1", "-", "0", "1", "-", "0", "2", " ", "1", "0", ":", "2", "0", ":", "0", "0">>,
      time |-> datetime(2001, 1, 2, 10)],
     [text |-> <<"2", "0", "0", "2", "-", "0", "2", "-", "1", "2", " ", "2", "2", ":", "0", "0", ":", "0", "1">>,
      time |-> datetime(2002, 2, 12, 22)],
     [text |-> <<"2", "0", "1", "2", "-", "1", "2", "-", "3", "1", " ", "2", "0", ":", "1", "0", ":", "1", "2">>,
      time |-> datetime(2012, 12, 31, 20)]}
AddedOn == <<"A", "d", "d", "e", "d", " ", "o", "n", ":", " ">>
LastModifiedOn == <<"L", "a", "s", "t", " ", "m", "o", "d", "i", "f", "i", "e", "d", " ", "o", "n", ":", " ">>
NotAvailable == <<"N", "/", "A">>
AddedCells == {AddedOn \o s.text : s \in Stamps} \cup {AddedOn \o NotAvailable, <<>>}
ModifiedCells ==
    {LastModifiedOn \o s.text : s \in Stamps} \cup {LastModifiedOn \o NotAvailable, <<>>}
AuditCalls ==
    [op : {"audit"}, name : AuditAccessors,
     cells : AddedCells \X ModifiedCells]

(***************************************************************************)
(* The accessors of Band, Album and Track that read a datum the page may   *)
(* lack.  A page is dd, the text of the dd of each dt label it has; href,  *)
(* the link of each image it has; strong and td, the text of the cells a   *)
(* duration is read from.                                                  *)
(***************************************************************************)
MaxAbsent == 1    \* data one page lacks

Labels == {"Country of origin:", "Location:", "Status:", "Formed in:", "Genre:",
           "Themes:", "Current label:", "Type:", "Release date:", "Label:",
           "Reviews:"}
Images == {"#logo", "#photo", "#cover"}
NoElement == [present |-> FALSE, text |-> <<>>]

\* _dd_element_for_label(label): None when no dt holds the label
dd_element_for_label(page, label) ==
    IF page.dd[label].present THEN page.dd[label] ELSE NoElement

\* _dd_text_for_label(label): element.text() if element else ""
dd_text_for_label(page, label) ==
    LET element == dd_element_for_label(page, label)
    IN  IF element.present THEN element.text ELSE <<>>

\* s.split(sep)
RECURSIVE str_split(_, _, _, _)
str_split(str, sep, i, part) ==
    IF i > Len(str) THEN <<part>>
    ELSE IF i + Len(sep) - 1 <= Len(str) /\ SubSeq(str, i, i + Len(sep) - 1) = sep
    THEN <<part>> \o str_split(str, sep, i + Len(sep), <<>>)
    ELSE str_split(str, sep, i + 1, Append(part, str[i]))

\* re.search(r'(\d+)', text): the first run of digits, <<>> for no match
RECURSIVE digits_from(_, _)
digits_from(str, i) ==
    IF i <= Len(str) /\ str[i] \in Digits
    THEN <<str[i]>> \o digits_from(str, i + 1)
    ELSE <<>>
RECURSIVE search_digits(_, _)
search_digits(str, i) ==
    IF i > Len(str) THEN <<>>
    ELSE IF str[i] \in Digits THEN digits_from(str, i)
    ELSE search_digits(str, i + 1)

\* re.search(r'(\d{1,3})%', text): at the leftmost position where one to
\* three digits are followed by a percent sign, the longest such run
RECURSIVE search_percent(_, _)
search_percent(str, i) ==
    IF i > Len(str) THEN <<>>
    ELSE LET ks == {k \in 1..3 : /\ i + k <= Len(str)
                                 /\ IsDigits(SubSeq(str, i, i + k - 1))
                                 /\ str[i + k] = "%"}
         IN  IF ks # {}
             THEN SubSeq(str, i, i + (CHOOSE k \in ks : \A j \in ks : j <= k) - 1)
             ELSE search_percent(str, i + 1)

\* '#logo', '#photo', '#cover': url = attr('href'); None if not url
image_link(page, id) ==
    IF page.href[id] = <<>> THEN ReturnedNone
    ELSE Returned(str_split(page.href[id], <<"?">>, 1, <<>>)[1])

\* Album.date
Album_date(page, today, lib) ==
    LET str == dd_text_for_label(page, "Release date:")
    IN  IF Len(str) > 4 /\ "," \notin {str[i] : i \in 1..Len(str)}
        THEN strptime_B_Y(str)
        ELSE date_parser_parse(str, today, lib)

duration_of(str) == IF str # <<>> THEN Returned(parse_duration(str)) ELSE Returned(0)

Accessors ==
    {"Band.country", "Band.location", "Band.status", "Band.formed_in", "Band.genres",
     "Band.themes", "Band.label", "Band.logo", "Band.photo", "Album.type",
     "Album.duration", "Album.date", "Album.year", "Album.label", "Album.score",
     "Album.review_count", "Album.cover", "Track.duration"}

accessor(name, page, today, lib) ==
    IF name = "Band.country"
    THEN Returned(dd_text_for_label(page, "Country of origin:"))
    ELSE IF name = "Band.location" THEN Returned(dd_text_for_label(page, "Location:"))
    ELSE IF name = "Band.status" THEN Returned(dd_text_for_label(page, "Status:"))
    ELSE IF name = "Band.formed_in" THEN Returned(dd_text_for_label(page, "Formed in:"))
    ELSE IF name = "Band.genres"
    THEN Returned(split_genres(dd_text_for_label(page, "Genre:")))
    ELSE IF name = "Band.themes"
    THEN Returned(str_split(dd_text_for_label(page, "Themes:"), <<",", " ">>, 1, <<>>))
    ELSE IF name = "Band.label"
    THEN Returned(dd_text_for_label(page, "Current label:"))
    ELSE IF name = "Band.logo" THEN image_link(page, "#logo")
    ELSE IF name = "Band.photo" THEN image_link(page, "#photo")
    ELSE IF name = "Album.type"
    THEN LET element == dd_element_for_label(page, "Type:")
         IN  Returned(IF element.present THEN element.text ELSE <<>>)
    ELSE IF name = "Album.duration" THEN duration_of(page.strong)
    ELSE IF name = "Album.date" THEN Album_date(page, today, lib)
    ELSE IF name = "Album.year"
    THEN LET date == Album_date(page, today, lib)
         IN  IF date.raised # None THEN date ELSE Returned(date.value.year)
    ELSE IF name = "Album.label"
    THEN LET element == dd_element_for_label(page, "Label:")
         IN  Returned(IF element.present THEN element.text ELSE <<>>)
    ELSE IF name = "Album.score"
    THEN LET element == dd_element_for_label(page, "Reviews:")
             score == search_percent(element.text, 1)
         IN  IF ~element.present \/ score = <<>> THEN ReturnedNone
             ELSE Returned(int(score))
    ELSE IF name = "Album.review_count"
    THEN LET element == dd_element_for_label(page, "Reviews:")
             count == search_digits(element.text, 1)
         IN  IF ~element.present \/ count = <<>> THEN ReturnedNone
             ELSE Returned(int(count))
    ELSE IF name = "Album.cover" THEN image_link(page, "#cover")
    ELSE duration_of(page.td)

\* The texts of a page that has the datum.
DateTexts ==
    {<<"2", "0", "0", "1">>,
     <<"M", "a", "y", " ", "2", "0", "0", "1">>,
     <<"J", "u", "l", "y", " ", "2", "n", "d", ",", " ", "2", "0", "1", "2">>}
ReviewTexts ==
    {<<"n", "o", "n", "e">>, <<"2", " ", "(", "1", "0", "0", "%", ")">>}
TextOf(label, date, reviews) ==
    IF label = "Release date:" THEN date
    ELSE IF label = "Reviews:" THEN reviews
    ELSE <<"a", ",", " ", "a">>
Data == Labels \cup Images \cup {"strong", "td"}
Pages ==
    {[dd |-> [l \in Labels |-> IF l \in absent THEN NoElement
                               ELSE [present |-> TRUE, text |-> TextOf(l, date, reviews)]],
      href |-> [i \in Images |-> IF i \in absent THEN <<>> ELSE <<"u", "?", "1">>],
      strong |-> IF "strong" \in absent THEN <<>> ELSE <<"1", ":", "0", "2">>,
      td |-> IF "td" \in absent THEN <<>> ELSE <<"2", ":", "1", "0">>,
      absent |-> absent] :
        absent \in {a \in SUBSET Data : Cardinality(a) <= MaxAbsent},
        date \in DateTexts, reviews \in ReviewTexts}
Todays == {datetime(2020, 1, 2, 0)}
AccessorCalls ==
    [op : {"accessor"}, name : Accessors, page : Pages, today : Todays,
     lib : {"new", "old"}]

(***************************************************************************)
(* SimilarArtists.__init__: links_list is the 'a' elements of the page     *)
(* (their hrefs), values_list its 'tr' rows (the cells of each).  The      *)
(* object is the list of entries and, once set, the attribute result_count.*)
(***************************************************************************)
MaxLinks == 3    \* 'a' elements of one recommendations page

\* for i in range(0, len(links_list) - 1): the body for i, then the rest
RECURSIVE SimilarArtists_loop(_, _, _, _)
SimilarArtists_loop(self, links_list, values_list, i) ==
    IF i >= Len(links_list) - 1 THEN self
    ELSE IF i + 1 >= Len(values_list)
    THEN [self EXCEPT !.raised = "IndexError"]
    ELSE SimilarArtists_loop(
             [self EXCEPT !.list = Append(@, <<links_list[i + 1]>> \o values_list[i + 2]),
                          !.has_result_count = TRUE,
                          !.result_count = i],
             links_list, values_list, i + 1)

SimilarArtists_init(links_list, values_list) ==
    SimilarArtists_loop([raised |-> None, list |-> <<>>,
                         has_result_count |-> FALSE, result_count |-> 0],
                        links_list, values_list, 0)

Hrefs == {<<"u">>, <<"v">>}
SimilarRow == <<<<"n">>, <<"c">>, <<"g">>, <<"2">>>>
SimilarPages ==
    UNION {[links_list : [1..n -> Hrefs],
            values_list : {[i \in 1..(n + 1) |-> SimilarRow], <<>>}] : n \in 0..MaxLinks}
SimilarArtistsCalls ==
    {[op |-> "SimilarArtists", links_list |-> p.links_list,
      values_list |-> p.values_list] : p \in SimilarPages}

InitFunctions ==
    /\ now = 0
    /\ cache = [k \in AbsoluteUrls |-> NoEntry]
    /\ last = NoFetch
    /\ prev = [kind |-> "none", at |-> 0]
    /\ album = NoAlbum
    /\ acc = NoAccess
    /\ args \in SearchCalls \cup GenreCalls \cup TrackCalls \cup TitleCalls
                \cup DurationCalls \cup SearchConstructions \cup AccessorCalls
                \cup SearchGetattrCalls \cup AuditCalls
                \cup SimilarArtistsCalls
    /\ ret = NoResult
    /\ threads = [t \in Threads |-> Idle]

Return(value) ==
    /\ ~ret.done
    /\ ret' = [done |-> TRUE, value |-> value]
    /\ UNCHANGED <<now, cache, last, prev, album, acc, args, threads>>

call_search ==
    /\ args.op = "search"
    /\ Return(search(args.self, args.heap, args.kwargs))

call_split_genres ==
    /\ args.op = "split_genres"
    /\ Return(split_genres(args.s))

call_TrackCollection ==
    /\ args.op = "TrackCollection"
    /\ Return(TrackCollection_init(args.rows))

call_title ==
    /\ args.op = "title"
    /\ Return(Track_title(args.type, args.bands, args.full_title))

call_parse_duration ==
    /\ args.op = "parse_duration"
    /\ Return(parse_duration(args.s))

call_Search ==
    /\ args.op = "Search"
    /\ Return(Search_init(args.content))

call_accessor ==
    /\ args.op = "accessor"
    /\ Return(accessor(args.name, args.page, args.today, args.lib))

call_search_getattr ==
    /\ args.op = "search_getattr"
    /\ Return(search_getattr(args.self, args.heap, args.kwargs))

call_audit_accessor ==
    /\ args.op = "audit"
    /\ Return(audit_accessor(args.name, args.cells))

call_SimilarArtists ==
    /\ args.op = "SimilarArtists"
    /\ Return(SimilarArtists_init(args.links_list, args.values_list))

NextFunctions ==
    \/ call_search
    \/ call_split_genres
    \/ call_TrackCollection
    \/ call_title
    \/ call_parse_duration
    \/ call_Search
    \/ call_accessor
    \/ call_search_getattr
    \/ call_audit_accessor
    \/ call_SimilarArtists

Functions == InitFunctions /\ [][NextFunctions]_vars

(***************************************************************************)
(* C1.  For one AlbumWrapper and any sequence of attribute accesses on     *)
(* it, failing ones included: a wrapper that holds an Album before an      *)
(* access holds an Album after it (Full never goes back to Partial), and   *)
(* __getattr__ replaces the held representation by a freshly fetched Album *)
(* at most once in the wrapper's life.                                     *)
(***************************************************************************)
C1_EscalatesAtMostOnce ==
    /\ acc.before = "Album" => album._album = "Album"
    /\ album.escalations <= 1

(***************************************************************************)
(* C2.  For a wrapper built from a listing row: building the listing       *)
(* fetches the listing page only; an access to a field LazyAlbum provides, *)
(* made while the wrapper is Partial, fetches nothing; an access to a      *)
(* Full-only field made while the wrapper is Partial (the row's link       *)
(* carrying its id) issues exactly one fetch of the album page; an access  *)
(* to a Full-only field made once the wrapper is Full issues none.         *)
(***************************************************************************)
C2_LazyFetchCounts ==
    album.built_by = "elem" =>
        /\ album.init_fetches = 0
        /\ acc = NoAccess => album._album = "LazyAlbum"
        /\ (acc.name \in LazyFields /\ acc.before = "LazyAlbum") =>
              acc.album_fetches = 0
        /\ (acc.name \in AlbumFields \ LazyFields /\ acc.before = "LazyAlbum"
              /\ album.href = "digits") =>
              acc.album_fetches = 1
        /\ (acc.name \in AlbumFields \ LazyFields /\ acc.before = "Album") =>
              acc.album_fetches = 0

(***************************************************************************)
(* C3.  A fetch served from the cache sends no request and sleeps no time; *)
(* the hook sleeps only for a response that came from the network.         *)
(***************************************************************************)
C3_CachedFetchIsFree ==
    /\ last.kind = "hit" => last.requests = 0 /\ last.slept = 0
    /\ last.slept > 0 => last.status \in {"ok", "http_error"}

C3_Witness ==
    /\ last.kind = "hit"
    /\ prev.kind = "miss"
    /\ last.at = prev.at + REQUEST_TIMEOUT
    /\ now = last.at

(***************************************************************************)
(* C4.  In one single-threaded run, two consecutive fetch calls that both  *)
(* miss the cache send their requests at least REQUEST_TIMEOUT apart.      *)
(***************************************************************************)
C4_MissesSpaced ==
    (prev.kind = "miss" /\ last.kind = "miss") =>
        last.at - prev.at >= REQUEST_TIMEOUT

(***************************************************************************)
(* C5.  An entry stored more than EXPIRE_AFTER ago is never served: every  *)
(* response served from the cache is at most EXPIRE_AFTER old.             *)
(***************************************************************************)
C5_StaleNeverServed ==
    last.kind = "hit" => last.age <= EXPIRE_AFTER

(***************************************************************************)
(* C6.  A fetch that ends in a transport failure or in a non-success       *)
(* status raises to its caller, no entity is built from the failed         *)
(* response, and one fetch call sends at most one request.                 *)
(***************************************************************************)
C6_FailedFetchRaises ==
    /\ last.status \in {"transport_failure", "http_error"} => last.raised
    /\ album.page # ERROR_PAGE
    /\ last.requests <= 1

(***************************************************************************)
(* C7.  search returns exactly the items, in their order, whose every      *)
(* constrained field equals the given value ignoring case; with two        *)
(* constraints the result is that of searching on one and then searching   *)
(* the result on the other, in either order.                               *)
(***************************************************************************)
SameLetter(c, d) ==
    \/ c = d
    \/ {c, d} \in {{"m", "M"}, {"o", "O"}, {"k", "K"}}

EqualIgnoringCase(str, t) ==
    /\ Len(str) = Len(t)
    /\ \A i \in 1..Len(str) : SameLetter(str[i], t[i])

MatchesAll(item, heap, kwargs) ==
    \A k \in 1..Len(kwargs) : EqualIgnoringCase(kwargs[k][2], heap[item][kwargs[k][1]])

C7_SearchIsAndFilter ==
    (args.op = "search" /\ ret.done) =>
        LET kw == args.kwargs
            Keep(item) == MatchesAll(item, args.heap, kw)
        IN  /\ ret.value = SelectSeq(args.self, Keep)
            /\ Len(kw) = 2 =>
                  /\ ret.value = search(search(args.self, args.heap, <<kw[1]>>),
                                        args.heap, <<kw[2]>>)
                  /\ ret.value = search(search(args.self, args.heap, <<kw[2]>>),
                                        args.heap, <<kw[1]>>)

C7_Witness ==
    /\ args.op = "search"
    /\ ret.done
    /\ Len(args.kwargs) = 2
    /\ Len(args.self) = 3
    /\ Len(ret.value) = 1
    /\ \E k \in 1..2 : args.heap[ret.value[1]][args.kwargs[k][1]] # args.kwargs[k][2]
    /\ \E i \in 1..3 : /\ MatchesAll(args.self[i], args.heap, <<args.kwargs[1]>>)
                       /\ ~MatchesAll(args.self[i], args.heap, <<args.kwargs[2]>>)

(***************************************************************************)
(* C8.  split_genres, on an input whose parentheses are balanced: the      *)
(* number of phrases is 1 + the number of commas and semicolons outside    *)
(* every parenthesized span, and every phrase has balanced parentheses (a  *)
(* delimiter inside a span, nested spans included, never splits).          *)
(***************************************************************************)
Opens(s, n) == Cardinality({i \in 1..n : s[i] = "("})
Closes(s, n) == Cardinality({i \in 1..n : s[i] = ")"})
Balanced(s) ==
    /\ Opens(s, Len(s)) = Closes(s, Len(s))
    /\ \A n \in 1..Len(s) : Closes(s, n) <= Opens(s, n)
TopLevelDelimiters(s) ==
    {i \in 1..Len(s) : s[i] \in {",", ";"} /\ Opens(s, i) = Closes(s, i)}

C8_SplitsOutsideParentheses ==
    (args.op = "split_genres" /\ ret.done /\ Balanced(args.s)) =>
        /\ Len(ret.value) = 1 + Cardinality(TopLevelDelimiters(args.s))
        /\ \A k \in 1..Len(ret.value) : Balanced(ret.value[k])

(***************************************************************************)
(* C9.  TrackCollection numbering: the row at position i gets overall      *)
(* number i and disc number 1 + the number of rows at positions 2..i whose *)
(* declared track number is 1.                                             *)
(***************************************************************************)
C9_TrackNumbering ==
    (args.op = "TrackCollection" /\ ret.done) =>
        /\ Len(ret.value) = Len(args.rows)
        /\ \A i \in 1..Len(args.rows) :
              /\ ret.value[i]._overall_number = i
              /\ ret.value[i]._disc_number =
                    1 + Cardinality({j \in 2..i : Track_number(args.rows[j]) = 1})

C9_Witness ==
    /\ args.op = "TrackCollection"
    /\ ret.done
    /\ Len(args.rows) = 3
    /\ Track_number(args.rows[1]) = 1
    /\ Track_number(args.rows[2]) = 2
    /\ Track_number(args.rows[3]) = 1
    /\ ret.value[2]._disc_number = 1
    /\ ret.value[3]._disc_number = 2
    /\ ret.value[3]._overall_number = 3

(***************************************************************************)
(* C10.  For a track of a split release, the full title is the name of the *)
(* first band, in release-band order, that the full title starts with,     *)
(* then the separator, then Track.title: exactly that prefix is removed.   *)
(***************************************************************************)
FirstBandInTitle(bands, full_title) ==
    bands[CHOOSE i \in DOMAIN bands :
            /\ startswith(full_title, bands[i])
            /\ \A j \in 1..(i - 1) : ~startswith(full_title, bands[j])]

C10_TitleStripsBandPrefix ==
    (args.op = "title" /\ ret.done /\ args.type = SPLIT) =>
        args.full_title =
            FirstBandInTitle(args.bands, args.full_title) \o SEPARATOR \o ret.value

(***************************************************************************)
(* C11.  parse_duration, on one, two or three groups of digits joined by   *)
(* colons, returns the rightmost group, plus 60 times the group before it  *)
(* when there is one, plus 3600 times the leftmost when there are three.   *)
(***************************************************************************)
ColonsOf(s) == {i \in 1..Len(s) : s[i] = ":"}
GroupValue(s, from, to) == int(SubSeq(s, from, to))

C11_ParseDuration ==
    (args.op = "parse_duration" /\ ret.done) =>
        LET s == args.s
            n == Len(s)
            c == ColonsOf(s)
        IN  /\ Cardinality(c) = 0 => ret.value = GroupValue(s, 1, n)
            /\ Cardinality(c) = 1 =>
                  \E i \in c :
                     ret.value = GroupValue(s, i + 1, n) + 60 * GroupValue(s, 1, i - 1)
            /\ Cardinality(c) = 2 =>
                  \E i, j \in c :
                     /\ i < j
                     /\ ret.value = GroupValue(s, j + 1, n)
                                       + 60 * GroupValue(s, i + 1, j - 1)
                                       + 3600 * GroupValue(s, 1, i - 1)

C11_Witness ==
    /\ args.op = "parse_duration"
    /\ ret.done
    /\ args.s = <<"1", ":", "0", "2", ":", "2", "1">>
    /\ ret.value = 3600 + 120 + 21

(***************************************************************************)
(* C12.  Search built from a well-formed response of k >= 0 rows raises    *)
(* nothing, holds the k results in the order of the rows, and has          *)
(* result_count equal to the total the response reports; with no row and   *)
(* a reported total of zero it is empty with result_count 0.               *)
(***************************************************************************)
C12_SearchConstruction ==
    (args.op = "Search" /\ ret.done /\ args.content.kind = "json") =>
        LET rows == args.content.aaData
        IN  /\ ret.value.raised = None
            /\ Len(ret.value.items) = Len(rows)
            /\ \A i \in 1..Len(rows) :
                  /\ Len(ret.value.items[i]) = Len(rows[i])
                  /\ \A j \in 1..Len(rows[i]) :
                        ret.value.items[i][j] \in {rows[i][j].text, rows[i][j].id}
            /\ ret.value.result_count = int(args.content.iTotalRecords)
            /\ (rows = <<>> /\ args.content.iTotalRecords = <<"0">>) =>
                  (ret.value.items = <<>> /\ ret.value.result_count = 0)

C12_Witness ==
    /\ args.op = "Search"
    /\ ret.done
    /\ args.content.kind = "json"
    /\ Len(args.content.aaData) = 2
    /\ args.content.aaData[1] # args.content.aaData[2]
    /\ args.content.iTotalRecords = <<"1", "2">>
    /\ Len(ret.value.items) = 2
    /\ ret.value.result_count = 12

C12_WitnessNoRows ==
    /\ args.op = "Search"
    /\ ret.done
    /\ args.content.kind = "json"
    /\ args.content.aaData = <<>>
    /\ ret.value.items = <<>>
    /\ ret.value.result_count = 0

(***************************************************************************)
(* C13.  An accessor of an optional datum, called on a page that lacks the *)
(* datum, raises nothing and returns the empty string, an empty list (or   *)
(* the list of one empty string), None or 0.                               *)
(***************************************************************************)
DatumOf(name) ==
    IF name = "Band.country" THEN "Country of origin:"
    ELSE IF name = "Band.location" THEN "Location:"
    ELSE IF name = "Band.status" THEN "Status:"
    ELSE IF name = "Band.formed_in" THEN "Formed in:"
    ELSE IF name = "Band.genres" THEN "Genre:"
    ELSE IF name = "Band.themes" THEN "Themes:"
    ELSE IF name = "Band.label" THEN "Current label:"
    ELSE IF name = "Band.logo" THEN "#logo"
    ELSE IF name = "Band.photo" THEN "#photo"
    ELSE IF name = "Album.type" THEN "Type:"
    ELSE IF name = "Album.duration" THEN "strong"
    ELSE IF name \in {"Album.date", "Album.year"} THEN "Release date:"
    ELSE IF name = "Album.label" THEN "Label:"
    ELSE IF name \in {"Album.score", "Album.review_count"} THEN "Reviews:"
    ELSE IF name = "Album.cover" THEN "#cover"
    ELSE "td"

IsEmptyResult(name, result) ==
    IF name \in {"Album.duration", "Track.duration", "Album.year"}
    THEN result.none \/ result.value = 0
    ELSE IF name \in {"Band.genres", "Band.themes"}
    THEN result.value \in {<<>>, << <<>> >>}
    ELSE result.none \/ result.value = <<>>

C13_AbsentDatumIsEmpty ==
    (args.op = "accessor" /\ ret.done /\ DatumOf(args.name) \in args.page.absent) =>
        /\ ret.value.raised = None
        /\ IsEmptyResult(args.name, ret.value)

\* C13 for every accessor but the two that read the release date.
C13_AbsentDatumIsEmptyButDate ==
    (args.op = "accessor" /\ ret.done /\ DatumOf(args.name) \in args.page.absent
        /\ args.name \notin {"Album.date", "Album.year"}) =>
        /\ ret.value.raised = None
        /\ IsEmptyResult(args.name, ret.value)

(***************************************************************************)
(* C14.  As claimed: after tracks or disc_count has been read on a wrapper *)
(* that held a LazyAlbum, the wrapper holds an Album.                      *)
(***************************************************************************)
C14_DerivedEscalate ==
    (acc.name \in DerivedFields /\ acc.before = "LazyAlbum" /\ acc.out = "ok") =>
        album._album = "Album"

(***************************************************************************)
(* C14, amended.  Reading tracks or disc_count never changes what the      *)
(* wrapper holds: a wrapper that held a LazyAlbum still holds it, whether  *)
(* the read returned or raised.  When the row's link gives a url, the read *)
(* issues one fetch call for the album's page, for the track table.        *)
(***************************************************************************)
C14_DerivedLeaveRepresentation ==
    acc.name \in DerivedFields =>
        /\ album._album = acc.before
        /\ album.escalations = 0 \/ acc.before = "Album"
        /\ (acc.before = "LazyAlbum" /\ album.href = "digits") =>
              (acc.album_fetches = 1 /\ last.url = make_absolute(ALBUM_URL))

C14_Witness ==
    /\ acc.name \in DerivedFields
    /\ acc.before = "LazyAlbum"
    /\ acc.out = "ok"
    /\ album._album = "LazyAlbum"
    /\ last.kind = "miss"
    /\ last.url = make_absolute(ALBUM_URL)

(***************************************************************************)
(* C15.  When the fetch of the album page made by an escalation ends in a  *)
(* transport failure or in a non-success status, the wrapper still holds   *)
(* its LazyAlbum and the access that triggered it raises; and every access *)
(* to a Full-only field on a wrapper that holds a LazyAlbum (one left by a *)
(* failed escalation included) attempts the escalation.                    *)
(***************************************************************************)
EscalationFetchFailed(statuses) ==
    /\ acc.name \in AlbumFields \ LazyFields
    /\ acc.before = "LazyAlbum"
    /\ acc.album_fetches = 1
    /\ last.url = make_absolute(ALBUM_URL)
    /\ last.status \in statuses

C15_FailedEscalationStaysPartial ==
    /\ EscalationFetchFailed({"transport_failure", "http_error"}) =>
          (album._album = "LazyAlbum" /\ acc.out # "ok")
    /\ (acc.name \in AlbumFields \ LazyFields /\ acc.before = "LazyAlbum"
          /\ album.href = "digits") =>
          acc.album_fetches = 1

\* C15 for the failures that raise: the transport failures.
C15_TransportFailureStaysPartial ==
    /\ EscalationFetchFailed({"transport_failure"}) =>
          (album._album = "LazyAlbum" /\ acc.out = "ConnectionError")
    /\ (acc.name \in AlbumFields \ LazyFields /\ acc.before = "LazyAlbum"
          /\ album.href = "digits") =>
          acc.album_fetches = 1

(***************************************************************************)
(* C16.  With several callers fetching at once: the requests of two        *)
(* callers go out at least REQUEST_TIMEOUT apart, and two callers never    *)
(* both miss the cache for one url and both send a request for it.         *)
(***************************************************************************)
HasSent(t) == threads[t].kind = "miss" /\ threads[t].pc \in {"sent", "sleeping", "done"}
InFlight(t) == threads[t].pc \in {"sent", "sleeping"}

C16_RequestsSerialized ==
    \A t1, t2 \in Threads :
        t1 # t2 =>
            /\ (HasSent(t1) /\ HasSent(t2)) =>
                  \/ threads[t1].sent_at - threads[t2].sent_at >= REQUEST_TIMEOUT
                  \/ threads[t2].sent_at - threads[t1].sent_at >= REQUEST_TIMEOUT
            /\ ~(InFlight(t1) /\ InFlight(t2)
                    /\ threads[t1].endpoint = threads[t2].endpoint)

\* The second half of C16 alone: one url is never fetched by two callers
\* at once.
C16_NoDoubleFetch ==
    \A t1, t2 \in Threads :
        t1 # t2 => ~(InFlight(t1) /\ InFlight(t2)
                        /\ threads[t1].endpoint = threads[t2].endpoint)

(***************************************************************************)
(* C17.  As claimed: the sleep of a fetch that misses the cache is the     *)
(* remainder of REQUEST_TIMEOUT since the request of the previous miss,    *)
(* max(0, REQUEST_TIMEOUT - elapsed), and nothing when the process has     *)
(* made no call before.                                                    *)
(***************************************************************************)
Remainder(elapsed) ==
    IF elapsed >= REQUEST_TIMEOUT THEN 0 ELSE REQUEST_TIMEOUT - elapsed

C17_DelayIsRemainder ==
    last.kind = "miss" =>
        /\ prev.kind = "none" => last.slept = 0
        /\ prev.kind = "miss" => last.slept = Remainder(last.at - prev.at)

(***************************************************************************)
(* C17, amended.  A fetch that misses the cache and gets a response sleeps *)
(* REQUEST_TIMEOUT in full after it, whatever time has passed since the    *)
(* previous request and also when there was none; a miss whose request     *)
(* ends in a transport failure does not sleep.                             *)
(***************************************************************************)
C17_FullSleepAfterResponse ==
    last.kind = "miss" =>
        last.slept = (IF last.raised THEN 0 ELSE REQUEST_TIMEOUT)

C17_Witness ==
    /\ last.kind = "miss"
    /\ prev.kind = "miss"
    /\ last.at - prev.at >= REQUEST_TIMEOUT
    /\ ~last.raised
    /\ last.slept = REQUEST_TIMEOUT
    /\ now = last.at + REQUEST_TIMEOUT

(***************************************************************************)
(* C18.  As claimed: when a constraint of a search names a field that      *)
(* cannot be read on an item of the collection, the call raises that       *)
(* accessor's error, whatever the other constraints and their order.       *)
(***************************************************************************)
Readable(heap, item, constraint) == heap[item][constraint[1]] # Unreadable
Matches(heap, item, constraint) ==
    EqualIgnoringCase(constraint[2], heap[item][constraint[1]])

C18_AccessorErrorsPropagate ==
    (args.op = "search_getattr" /\ ret.done) =>
        ((\E k \in 1..Len(args.kwargs), i \in 1..Len(args.self) :
             ~Readable(args.heap, args.self[i], args.kwargs[k]))
            => ret.value.raised = Unreadable[1])

(***************************************************************************)
(* C18, amended.  The call raises the accessor's error exactly when some   *)
(* constraint names a field that cannot be read on an item that every      *)
(* earlier constraint, in keyword order, could read and matched; an item   *)
(* an earlier constraint has removed is not read again.  When the call     *)
(* returns, the result is the items that match every constraint.           *)
(***************************************************************************)
ReachedUnreadable(self, heap, kwargs) ==
    \E k \in 1..Len(kwargs), i \in 1..Len(self) :
        /\ ~Readable(heap, self[i], kwargs[k])
        /\ \A j \in 1..(k - 1) :
              Readable(heap, self[i], kwargs[j]) /\ Matches(heap, self[i], kwargs[j])

C18_ErrorsOfCandidatesPropagate ==
    (args.op = "search_getattr" /\ ret.done) =>
        IF ReachedUnreadable(args.self, args.heap, args.kwargs)
        THEN ret.value.raised = Unreadable[1]
        ELSE /\ ret.value.raised = None
             /\ LET Keep(item) ==
                       \A k \in 1..Len(args.kwargs) :
                          Matches(args.heap, item, args.kwargs[k])
                IN  ret.value.collection = SelectSeq(args.self, Keep)

C18_Witness ==
    /\ args.op = "search_getattr"
    /\ ret.done
    /\ Len(args.kwargs) = 2
    /\ Len(args.self) = 2
    /\ \A i \in 1..2 : ~Readable(args.heap, args.self[i], args.kwargs[2])
    /\ ~Matches(args.heap, args.self[1], args.kwargs[1])
    /\ Matches(args.heap, args.self[2], args.kwargs[1])
    /\ ret.value.raised = Unreadable[1]

\* the case the claim gets wrong: the unreadable field is never read
C18_WitnessNotRead ==
    /\ args.op = "search_getattr"
    /\ ret.done
    /\ Len(args.kwargs) = 2
    /\ Len(args.self) = 2
    /\ \A i \in 1..2 : ~Readable(args.heap, args.self[i], args.kwargs[2])
    /\ ret.value.raised = None
    /\ ret.value.collection = <<>>

(***************************************************************************)
(* C19.  As claimed: each of Band.added, Band.modified, Album.added,       *)
(* Album.modified and Album.date returns the time its text says, moved     *)
(* UTC_OFFSET hours later; Album.date reads its text as "Month Year"       *)
(* exactly when the text has no comma, as a full date otherwise.           *)
(***************************************************************************)
NextHour(t) ==
    IF t.hour + 1 < 24 THEN [t EXCEPT !.hour = t.hour + 1]
    ELSE IF t.day < DaysIn(t.year, t.month) THEN [t EXCEPT !.day = t.day + 1, !.hour = 0]
    ELSE IF t.month < 12 THEN [t EXCEPT !.month = t.month + 1, !.day = 1, !.hour = 0]
    ELSE datetime(t.year + 1, 1, 1, 0)

RECURSIVE HoursLater(_, _)
HoursLater(t, n) == IF n = 0 THEN t ELSE HoursLater(NextHour(t), n - 1)

AuditCellRead == IF args.name \in {"Band.added", "Album.added"} THEN 1 ELSE 2
AuditCaption == IF AuditCellRead = 1 THEN AddedOn ELSE LastModifiedOn
StampsRead == {s \in Stamps : args.cells[AuditCellRead] = AuditCaption \o s.text}

AuditTimesShifted ==
    (args.op = "audit" /\ ret.done) =>
        IF StampsRead = {} THEN ret.value = ReturnedNone
        ELSE \A s \in StampsRead :
                ret.value = Returned(HoursLater(s.time, UTC_OFFSET))

HasComma(str) == \E i \in 1..Len(str) : str[i] = ","
ReleaseDate == args.page.dd["Release date:"]
DateAccessed ==
    /\ args.op = "accessor"
    /\ args.name = "Album.date"
    /\ ret.done
    /\ ReleaseDate.present

\* what each text of DateTexts says, read as "Month Year" and as a full date
MonthYearOf(str) ==
    IF str = <<"M", "a", "y", " ", "2", "0", "0", "1">>
    THEN Returned(datetime(2001, 5, 1, 0)) ELSE ValueError
FullDateOf(str, today) ==
    IF str = <<"2", "0", "0", "1">>
    THEN Returned(datetime(2001, today.month, today.day, 0))
    ELSE IF HasComma(str) THEN Returned(datetime(2012, 7, 2, 0))
    ELSE ValueError

C19_TimestampsShifted ==
    /\ AuditTimesShifted
    /\ DateAccessed =>
          LET read == IF HasComma(ReleaseDate.text)
                      THEN FullDateOf(ReleaseDate.text, args.today)
                      ELSE MonthYearOf(ReleaseDate.text)
          IN  IF read.raised # None THEN ret.value = read
              ELSE ret.value = Returned(HoursLater(read.value, UTC_OFFSET))

(***************************************************************************)
(* C19, amended.  The four audit-trail accessors return the printed time   *)
(* UTC_OFFSET hours later, and None when the cell holds no time.           *)
(* Album.date returns the printed date unshifted; it reads the text as     *)
(* "Month Year" exactly when the text is longer than four characters and   *)
(* has no comma, and as a full date otherwise.                             *)
(***************************************************************************)
C19_AuditShiftedDateAsPrinted ==
    /\ AuditTimesShifted
    /\ DateAccessed =>
          ret.value = IF Len(ReleaseDate.text) > 4 /\ ~HasComma(ReleaseDate.text)
                      THEN MonthYearOf(ReleaseDate.text)
                      ELSE FullDateOf(ReleaseDate.text, args.today)

\* a time late on the last day of a year is read and lands in the next year
C19_Witness ==
    /\ args.op = "audit"
    /\ args.name = "Album.modified"
    /\ ret.done
    /\ \E s \in StampsRead : s.time.hour + UTC_OFFSET >= 24 /\ s.time.month = 12
    /\ ret.value.value.month = 1

\* a year alone is read as a full date, and is not shifted
C19_WitnessYearOnly ==
    /\ DateAccessed
    /\ Len(ReleaseDate.text) = 4
    /\ ret.value.raised = None
    /\ ret.value.value.hour = 0

(***************************************************************************)
(* C20.  Once a SimilarArtists collection has been constructed, its        *)
(* result_count attribute is defined and equals the number of entries the  *)
(* collection holds, 0 for a page with no entries.                         *)
(***************************************************************************)
SimilarArtistsConstructed ==
    args.op = "SimilarArtists" /\ ret.done /\ ret.value.raised = None

C20_ResultCountIsLength ==
    SimilarArtistsConstructed =>
        /\ ret.value.has_result_count
        /\ ret.value.result_count = Len(ret.value.list)

\* what the code does: the count is the index of the last entry
C20_ResultCountIsLastIndex ==
    SimilarArtistsConstructed =>
        /\ ret.value.has_result_count = (ret.value.list # <<>>)
        /\ ret.value.has_result_count =>
              ret.value.result_count = Len(ret.value.list) - 1

====
